---- MODULE Spec2Model ----
(***************************************************************************)
(* Model of sql_generation_inference.py: the Model class that launches the *)
(* text-generation-launcher subprocess, polls 127.0.0.1:8000 until it      *)
(* accepts connections, forwards generate / generate_stream requests to    *)
(* the local server through the text_generation client, and terminates the *)
(* subprocess on exit; and generate_prompt, the template substitution.     *)
(***************************************************************************)
EXTENDS Integers, Sequences, FiniteSets, TLC

(* ------------------------------ bounds -------------------------------- *)

\* connect attempts of the readiness loop that are explored
MaxPolls == 3
\* the launcher's exit codes are 0..MaxExitCode
MaxExitCode == 2
\* client calls issued over the life of a container
MaxCalls == 2
\* token responses of one streamed completion
MaxTokens == 3
\* calls of __exit__ on one instance
MaxStops == 2
\* length of the question and metadata strings given to generate_prompt
MaxLen == 2
\* calls of generate_prompt on the same inputs
MaxRenders == 2

ExitCodes == 0..MaxExitCode
Texts == {"a", "b"}
Tokens == [text : Texts, special : BOOLEAN]
Errors == {"NetworkError", "ServerError"}
Alphabet == {"a", "b", "{"}

RECURSIVE SeqsUpTo(_, _)
SeqsUpTo(S, n) ==
  IF n = 0 THEN {<<>>}
  ELSE LET shorter == SeqsUpTo(S, n - 1)
       IN shorter \cup {Append(s, x) : s \in {t \in shorter : Len(t) = n - 1}, x \in S}

(* ------------------------------- state -------------------------------- *)

VARIABLES
  pc,          \* position of the instance: start, connect, check, sleep, serving, stopped, raised
  launcher,    \* self.launcher: "unset" or "set"
  client,      \* self.client: "unset" or "set"
  proc,        \* the launcher subprocess: unspawned, running, exited
  exitCode,    \* its exit code, <<n>> once exited
  port,        \* TRUE while the webserver listens on 127.0.0.1:8000
  everOpen,    \* the port has been open at some time
  sigterms,    \* SIGTERMs delivered to the subprocess
  attempts,    \* socket.create_connection calls made
  okConnects,  \* of them, the successful ones
  lastConnect, \* outcome of the latest attempt
  sleeps,      \* time.sleep(1.0) calls made
  spawns,      \* subprocess.Popen calls made
  error,       \* what __enter__ raised: <<>> or <<"RuntimeError", code>>
  exitCalls,   \* calls of __exit__
  exitErr,     \* what __exit__ raised: "none" or an exception name
  req,         \* the generate / generate_stream invocation in progress
  invocations, \* invocations of generate and generate_stream
  forwarded,   \* calls issued to the client
  pq, pm,      \* generate_prompt: question and metadata
  pout, pprev, \* its latest and previous outputs
  pcalls       \* calls of generate_prompt

vars == <<pc, launcher, client, proc, exitCode, port, everOpen, sigterms,
          attempts, okConnects, lastConnect, sleeps, spawns, error,
          exitCalls, exitErr, req, invocations, forwarded,
          pq, pm, pout, pprev, pcalls>>

procVars == <<proc, exitCode, port, everOpen>>
pollVars == <<attempts, okConnects, lastConnect, sleeps>>
exitVars == <<exitCalls, exitErr, sigterms>>
reqVars == <<req, invocations, forwarded>>
promptVars == <<pq, pm, pout, pprev, pcalls>>

(* --------------------------- generate_prompt --------------------------- *)

\* The template is the sequence of its literal runs and replacement fields;
\* a field is the three elements "{", name, "}".
\* The character ` (which a TLA+ string cannot hold)
BQ == "<backquote>"

PROMPT_TEMPLATE ==
  << "### Task\nGenerate a SQL query to answer the following question:\n", BQ,
     "{", "user_question", "}",
     BQ, "\n\n### Database Schema\nThe query will run on a database with the following schema:\n",
     "{", "table_metadata_string", "}",
     "\n\n### SQL\nFollow these steps to create the SQL Query:\n1. Only use the columns and tables present in the database schema\n2. Use table aliases to prevent ambiguity when doing joins. For example, ",
     BQ, "SELECT table1.col1, table2.col1 FROM table1 JOIN table2 ON table1.id = table2.id", BQ,
     ".\n\nGiven the database schema, here is the SQL query that answers ", BQ,
     "{", "user_question", "}",
     BQ, ":\n", BQ, BQ, BQ, "sql\n" >>

METADATA_DEFAULT == << "CREATE TABLE products (...); ... -- product_suppliers.product_id can be joined with products.product_id\n" >>

\* str.format with a first-field-only substitution
RECURSIVE FormatFirstOnly(_, _, _, _)
FormatFirstOnly(t, i, kwargs, used) ==
  IF i > Len(t) THEN <<>>
  ELSE IF t[i] = "{"
       THEN (IF t[i + 1] \in used THEN <<>> ELSE kwargs[t[i + 1]])
              \o FormatFirstOnly(t, i + 3, kwargs, used \cup {t[i + 1]})
       ELSE <<t[i]>> \o FormatFirstOnly(t, i + 1, kwargs, used)

\* str.format: a left-to-right scan that copies literal text and replaces
\* every field by the keyword argument of its name; the values are not rescanned.
RECURSIVE Format(_, _, _)
Format(t, i, kwargs) ==
  IF i > Len(t) THEN <<>>
  ELSE IF t[i] = "{"
       THEN kwargs[t[i + 1]] \o Format(t, i + 3, kwargs)
       ELSE <<t[i]>> \o Format(t, i + 1, kwargs)

generate_promptFirstOnly(question, prompt_template, metadata) ==
  FormatFirstOnly(prompt_template, 1,
                  [user_question |-> question, table_metadata_string |-> metadata], {})

generate_prompt(question, prompt_template, metadata) ==
  Format(prompt_template, 1,
         [user_question |-> question, table_metadata_string |-> metadata])

(* ----------------------------- supervisor ------------------------------ *)

None == <<>>
NoReq == [kind |-> "none", st |-> "idle", prompt |-> <<>>, ncalls |-> 0,
          arrived |-> <<>>, yielded |-> <<>>, result |-> <<>>,
          clientErr |-> "none", raised |-> "none"]

\* The Supervisor state the instance's position stands for
SupState ==
  CASE pc = "start" -> "Uninitialized"
    [] pc \in {"connect", "check", "sleep"} -> "Launching"
    [] pc = "serving" -> "Ready"
    [] pc = "stopped" -> "Terminated"
    [] pc = "raised" -> "Failed"

\* self.launcher.poll(): the exit code once the process has exited, else None
LauncherPoll == IF proc = "exited" THEN exitCode ELSE None

LifecycleInit ==
  /\ pc = "start" /\ launcher = "unset" /\ client = "unset"
  /\ proc = "unspawned" /\ exitCode = None /\ port = FALSE /\ everOpen = FALSE
  /\ sigterms = 0
  /\ attempts = 0 /\ okConnects = 0 /\ lastConnect = "none" /\ sleeps = 0
  /\ spawns = 0 /\ error = <<>>
  /\ exitCalls = 0 /\ exitErr = "none"
  /\ req = NoReq /\ invocations = 0 /\ forwarded = 0

Init ==
  /\ LifecycleInit
  /\ pq = <<>> /\ pm = <<>> /\ pout = <<>> /\ pprev = <<>> /\ pcalls = 0

\* __enter__ up to the loop: Popen, then AsyncClient
EnterSpawn ==
  /\ pc = "start"
  /\ launcher' = "set" /\ client' = "set"
  /\ proc' = "running" /\ spawns' = spawns + 1
  /\ pc' = "connect"
  /\ UNCHANGED <<exitCode, port, everOpen, pollVars, error, exitVars, reqVars, promptVars>>

\* What socket.create_connection(("127.0.0.1", 8000), timeout=1) gives: it
\* succeeds only while the server listens, is refused while nothing listens,
\* and can time out in either case. Both failures are caught by the handler.
ConnectOutcomes == IF port THEN {"ok", "timeout"} ELSE {"refused", "timeout"}

\* webserver_ready returning True from the socket.timeout handler
ConnectTimeoutReady ==
  /\ pc = "connect" /\ attempts < MaxPolls
  /\ \E o \in ConnectOutcomes :
       /\ lastConnect' = o
       /\ attempts' = attempts + 1
       /\ okConnects' = okConnects + (IF o = "ok" THEN 1 ELSE 0)
       /\ pc' = IF o = "timeout" THEN "serving" ELSE IF o = "ok" THEN "serving" ELSE "check"
  /\ UNCHANGED <<launcher, client, procVars, sleeps, spawns, error, exitVars, reqVars, promptVars>>

\* webserver_ready, the try: socket.create_connection(...).close(); on success
\* return True, which ends the while loop and __enter__
Connect ==
  /\ pc = "connect" /\ attempts < MaxPolls
  /\ \E o \in ConnectOutcomes :
       /\ lastConnect' = o
       /\ attempts' = attempts + 1
       /\ okConnects' = okConnects + (IF o = "ok" THEN 1 ELSE 0)
       /\ pc' = IF o = "ok" THEN "serving" ELSE "check"
  /\ UNCHANGED <<launcher, client, procVars, sleeps, spawns, error, exitVars, reqVars, promptVars>>

\* the except branch with "if retcode:" for "if retcode is not None:"
PollLauncherTruthy ==
  /\ pc = "check"
  /\ LET retcode == LauncherPoll
     IN IF retcode # None /\ retcode # <<0>>
        THEN /\ error' = <<"RuntimeError", retcode[1]>>
             /\ pc' = "raised"
        ELSE /\ error' = error
             /\ pc' = "sleep"
  /\ UNCHANGED <<launcher, client, procVars, pollVars, spawns, exitVars, reqVars, promptVars>>

\* the except branch restarting a dead launcher instead of raising
PollLauncherRestart ==
  /\ pc = "check"
  /\ IF LauncherPoll # None
     THEN /\ proc' = "running" /\ exitCode' = None /\ spawns' = spawns + 1
          /\ pc' = "sleep"
     ELSE /\ proc' = proc /\ exitCode' = exitCode /\ spawns' = spawns
          /\ pc' = "sleep"
  /\ UNCHANGED <<launcher, client, port, everOpen, pollVars, error, exitVars, reqVars, promptVars>>

\* the except branch with "return True" for "return False"
PollLauncherReturnsTrue ==
  /\ pc = "check"
  /\ LET retcode == LauncherPoll
     IN IF retcode # None
        THEN /\ error' = <<"RuntimeError", retcode[1]>>
             /\ pc' = "raised"
        ELSE /\ error' = error
             /\ pc' = "serving"
  /\ UNCHANGED <<launcher, client, procVars, pollVars, spawns, exitVars, reqVars, promptVars>>

\* the except branch raising whenever the connect failed
PollLauncherRaises ==
  /\ pc = "check"
  /\ error' = <<"RuntimeError", IF LauncherPoll = None THEN 0 ELSE LauncherPoll[1]>>
  /\ pc' = "raised"
  /\ UNCHANGED <<launcher, client, procVars, pollVars, spawns, exitVars, reqVars, promptVars>>

\* webserver_ready, the except branch: retcode = self.launcher.poll(); raise
\* RuntimeError(retcode) if it is not None, else return False
PollLauncher ==
  /\ pc = "check"
  /\ LET retcode == LauncherPoll
     IN IF retcode # None
        THEN /\ error' = <<"RuntimeError", retcode[1]>>
             /\ pc' = "raised"
        ELSE /\ error' = error
             /\ pc' = "sleep"
  /\ UNCHANGED <<launcher, client, procVars, pollVars, spawns, exitVars, reqVars, promptVars>>

\* the loop body: time.sleep(1.0), then webserver_ready again
Sleep ==
  /\ pc = "sleep"
  /\ sleeps' = sleeps + 1
  /\ pc' = "connect"
  /\ UNCHANGED <<launcher, client, procVars, attempts, okConnects, lastConnect,
                 spawns, error, exitVars, reqVars, promptVars>>

\* __exit__ that drops the handle after terminating
DoExitClearsLauncher ==
  /\ exitCalls' = exitCalls + 1
  /\ IF launcher = "unset"
     THEN /\ exitErr' = "AttributeError"
          /\ UNCHANGED <<pc, sigterms, launcher>>
     ELSE /\ exitErr' = exitErr
          /\ sigterms' = IF proc = "running" THEN sigterms + 1 ELSE sigterms
          /\ launcher' = "unset"
          /\ pc' = "stopped"
  /\ UNCHANGED <<client, procVars, pollVars, spawns, error, reqVars, promptVars>>

\* __exit__: self.launcher.terminate(). Popen.terminate polls the process and
\* signals it only if it has not exited; it raises in neither case.
DoExit ==
  /\ exitCalls' = exitCalls + 1
  /\ IF launcher = "unset"
     THEN /\ exitErr' = "AttributeError"
          /\ UNCHANGED <<pc, sigterms>>
     ELSE /\ exitErr' = exitErr
          /\ sigterms' = IF proc = "running" THEN sigterms + 1 ELSE sigterms
          /\ pc' = "stopped"
  /\ UNCHANGED <<launcher, client, procVars, pollVars, spawns, error, reqVars, promptVars>>

\* the container calls __exit__ when it shuts down, after __enter__ returned
Exit ==
  /\ pc = "serving"
  /\ DoExit

\* a second and later call of __exit__ on the same instance
ExitAgain ==
  /\ pc = "stopped" /\ exitCalls < MaxStops
  /\ DoExit

(* ----------------------------- subprocess ------------------------------ *)

\* the launched webserver starts listening on port 8000
ProcOpenPort ==
  /\ proc = "running" /\ ~port
  /\ port' = TRUE /\ everOpen' = TRUE
  /\ UNCHANGED <<pc, launcher, client, proc, exitCode, pollVars, spawns, error,
                 exitVars, reqVars, promptVars>>

\* the launcher process exits, on its own or after a SIGTERM
ProcExit ==
  /\ proc = "running"
  /\ \E n \in ExitCodes : exitCode' = <<n>>
  /\ proc' = "exited" /\ port' = FALSE
  /\ UNCHANGED <<pc, launcher, client, everOpen, pollVars, spawns, error,
                 exitVars, reqVars, promptVars>>
(* ------------------------------ requests ------------------------------- *)

\* the questions callers send; the metadata is the default schema
Questions == {<<"a">>, <<"b", "{">>}

\* The container runs __enter__ once when it starts and runs the methods per
\* request afterwards: an input is dispatched only once __enter__ has returned.
Dispatching == pc = "serving" /\ client = "set"

SlotFree == req.st \in {"idle", "returned", "finished", "failed"}

\* generate: render the prompt, await self.client.generate(prompt, ...)
GenerateCall ==
  /\ Dispatching /\ SlotFree /\ forwarded < MaxCalls
  /\ \E q \in Questions :
       req' = [NoReq EXCEPT !.kind = "generate", !.st = "awaiting",
                            !.prompt = generate_prompt(q, PROMPT_TEMPLATE, METADATA_DEFAULT),
                            !.ncalls = 1]
  /\ invocations' = invocations + 1
  /\ forwarded' = forwarded + 1
  /\ UNCHANGED <<pc, launcher, client, procVars, pollVars, spawns, error, exitVars, promptVars>>

\* generate: the client call returns; return result.generated_text
GenerateReturn ==
  /\ pc = "serving" /\ req.kind = "generate" /\ req.st = "awaiting" /\ port
  /\ \E t \in Texts : req' = [req EXCEPT !.st = "returned", !.result = <<t>>]
  /\ UNCHANGED <<pc, launcher, client, procVars, pollVars, spawns, error, exitVars,
                 invocations, forwarded, promptVars>>

\* generate that calls the client again when the call fails
GenerateFailRetries ==
  /\ pc = "serving" /\ req.kind = "generate" /\ req.st = "awaiting"
  /\ \E e \in Errors :
       req' = [req EXCEPT !.clientErr = e, !.ncalls = @ + 1]
  /\ forwarded' = forwarded + 1
  /\ forwarded < MaxCalls
  /\ UNCHANGED <<pc, launcher, client, procVars, pollVars, spawns, error, exitVars,
                 invocations, promptVars>>

\* generate: the client call raises; nothing catches it
GenerateFail ==
  /\ pc = "serving" /\ req.kind = "generate" /\ req.st = "awaiting"
  /\ \E e \in Errors :
       req' = [req EXCEPT !.st = "failed", !.clientErr = e, !.raised = e]
  /\ UNCHANGED <<pc, launcher, client, procVars, pollVars, spawns, error, exitVars,
                 invocations, forwarded, promptVars>>

\* generate_stream: render the prompt, open self.client.generate_stream(prompt, ...)
StreamCall ==
  /\ Dispatching /\ SlotFree /\ forwarded < MaxCalls
  /\ \E q \in Questions :
       req' = [NoReq EXCEPT !.kind = "stream", !.st = "streaming",
                            !.prompt = generate_prompt(q, PROMPT_TEMPLATE, METADATA_DEFAULT),
                            !.ncalls = 1]
  /\ invocations' = invocations + 1
  /\ forwarded' = forwarded + 1
  /\ UNCHANGED <<pc, launcher, client, procVars, pollVars, spawns, error, exitVars, promptVars>>

\* the loop body yielding every token
StreamTokenYieldsAll ==
  /\ pc = "serving" /\ req.kind = "stream" /\ req.st = "streaming" /\ port
  /\ Len(req.arrived) < MaxTokens
  /\ \E tok \in Tokens :
       req' = [req EXCEPT !.arrived = Append(@, tok),
                          !.yielded = Append(@, tok.text)]
  /\ UNCHANGED <<pc, launcher, client, procVars, pollVars, spawns, error, exitVars,
                 invocations, forwarded, promptVars>>

\* generate_stream, the loop body: a response arrives; yield its token's text
\* if the token is not special
StreamToken ==
  /\ pc = "serving" /\ req.kind = "stream" /\ req.st = "streaming" /\ port
  /\ Len(req.arrived) < MaxTokens
  /\ \E tok \in Tokens :
       req' = [req EXCEPT !.arrived = Append(@, tok),
                          !.yielded = IF ~tok.special THEN Append(@, tok.text) ELSE @]
  /\ UNCHANGED <<pc, launcher, client, procVars, pollVars, spawns, error, exitVars,
                 invocations, forwarded, promptVars>>

\* generate_stream: the client's stream completes and the generator ends
StreamEnd ==
  /\ pc = "serving" /\ req.kind = "stream" /\ req.st = "streaming" /\ port
  /\ req' = [req EXCEPT !.st = "finished"]
  /\ UNCHANGED <<pc, launcher, client, procVars, pollVars, spawns, error, exitVars,
                 invocations, forwarded, promptVars>>

\* generate_stream: the client's stream raises; nothing catches it
StreamFail ==
  /\ pc = "serving" /\ req.kind = "stream" /\ req.st = "streaming"
  /\ \E e \in Errors :
       req' = [req EXCEPT !.st = "failed", !.clientErr = e, !.raised = e]
  /\ UNCHANGED <<pc, launcher, client, procVars, pollVars, spawns, error, exitVars,
                 invocations, forwarded, promptVars>>

(* --------------------------- specifications ---------------------------- *)

Next ==
  \/ EnterSpawn \/ Connect \/ PollLauncher \/ Sleep \/ Exit
  \/ ProcOpenPort \/ ProcExit
  \/ GenerateCall \/ GenerateReturn \/ GenerateFail
  \/ StreamCall \/ StreamToken \/ StreamEnd \/ StreamFail

\* the container's life: __enter__ once, requests, __exit__ once
Spec == Init /\ [][Next]_vars

NextStop == Next \/ ExitAgain

\* the same, with __exit__ called again on the stopped instance
SpecStop == Init /\ [][NextStop]_vars

\* generate_prompt on its own: any question and metadata up to MaxLen
InitPrompt ==
  /\ LifecycleInit
  /\ pq \in SeqsUpTo(Alphabet, MaxLen) /\ pm \in SeqsUpTo(Alphabet, MaxLen)
  /\ pout = <<>> /\ pprev = <<>> /\ pcalls = 0

\* a call generate_prompt(pq, metadata=pm) with the default template
RenderPrompt ==
  /\ pcalls < MaxRenders
  /\ pout' = generate_prompt(pq, PROMPT_TEMPLATE, pm)
  /\ pprev' = pout
  /\ pcalls' = pcalls + 1
  /\ UNCHANGED <<pc, launcher, client, procVars, pollVars, spawns, error, exitVars,
                 reqVars, pq, pm>>

NextPrompt == RenderPrompt

SpecPrompt == InitPrompt /\ [][NextPrompt]_vars

(* ------------------------------- claims -------------------------------- *)

\* C1: __enter__ returns (Ready) only after a connect to 127.0.0.1:8000 has
\* succeeded, the latest attempt being that success; and when the very first
\* attempt succeeds, Ready is reached on that poll, with no sleep.
C1_ReadyOnlyAfterConnect ==
  /\ SupState \in {"Ready", "Terminated"} => okConnects >= 1 /\ lastConnect = "ok"
  /\ attempts = 1 /\ lastConnect = "ok" => SupState \in {"Ready", "Terminated"} /\ sleeps = 0

C1_Witness == pc = "serving" /\ attempts = 1 /\ okConnects = 1 /\ sleeps = 0

C3_LaunchFailure ==
  /\ [](pc = "raised" =>
          proc = "exited" /\ okConnects = 0 /\ error = <<"RuntimeError", exitCode[1]>>)
  /\ [](proc = "exited" /\ okConnects = 0 => SupState \in {"Launching", "Failed"})
  /\ [][pc = "check" /\ proc = "exited" /\ pc' # pc =>
          pc' = "raised" /\ error' = <<"RuntimeError", exitCode[1]>>]_vars
  /\ [][pc = "raised" => pc' = "raised" /\ attempts' = attempts /\ sleeps' = sleeps
                           /\ error' = error]_vars

C3_Witness ==
  pc = "raised" /\ error = <<"RuntimeError", 0>> /\ attempts >= 2 /\ sleeps >= 1 /\ ~everOpen

\* C4: a failed connect while the launcher is running is no error: the loop
\* sleeps one interval and connects again. While no connect has succeeded and
\* the launcher runs, __enter__ has neither returned nor raised, and it has
\* made one attempt per interval slept (one more when an attempt just failed).
C4_PollsWhileRunning ==
  /\ [](proc = "running" /\ okConnects = 0 =>
          /\ SupState = "Launching" /\ error = <<>>
          /\ attempts = sleeps + (IF pc = "connect" THEN 0 ELSE 1))
  /\ [][pc = "check" /\ proc = "running" /\ pc' # pc =>
          pc' = "sleep" /\ error' = <<>> /\ proc' = "running"]_vars
  /\ [][pc = "sleep" /\ pc' # pc => pc' = "connect" /\ sleeps' = sleeps + 1]_vars

C4_Witness ==
  /\ proc = "running" /\ ~everOpen /\ okConnects = 0
  /\ attempts = MaxPolls /\ sleeps = MaxPolls - 1 /\ pc = "sleep"

\* C5: on every exit path of the Supervisor (Terminated or Failed) __exit__,
\* and with it launcher.terminate(), has been called exactly once, and no
\* spawned subprocess is left running without a termination signal.
C5_TeardownOnEveryExit ==
  SupState \in {"Terminated", "Failed"} =>
    exitCalls = 1 /\ ~(proc = "running" /\ sigterms = 0)

\* C6 as stated: a second call of __exit__ does not raise and changes nothing,
\* neither of the Supervisor nor of the subprocess and the signals sent to it.
C6_SecondStopNoOp ==
  [][exitCalls >= 1 /\ exitCalls' = exitCalls + 1 =>
       /\ exitErr' = "none" /\ pc' = pc /\ launcher' = launcher /\ client' = client
       /\ proc' = proc /\ exitCode' = exitCode /\ port' = port
       /\ sigterms' = sigterms]_vars

\* C6 amended: a second call of __exit__ does not raise and leaves the
\* Supervisor and the subprocess's run state as they were; it sends SIGTERM
\* again when the subprocess has not exited yet, and nothing when it has.
C6_SecondStopNoRaise ==
  [][exitCalls >= 1 /\ exitCalls' = exitCalls + 1 =>
       /\ exitErr' = "none" /\ pc' = pc /\ launcher' = launcher /\ client' = client
       /\ proc' = proc /\ exitCode' = exitCode /\ port' = port
       /\ sigterms' = sigterms + (IF proc = "running" THEN 1 ELSE 0)]_vars

C6_Witness == exitCalls = 2 /\ pc = "stopped" /\ proc = "running" /\ sigterms = 2

\* the texts of the tokens of a sequence that are not special, in order
RECURSIVE NonSpecialTexts(_)
NonSpecialTexts(toks) ==
  IF toks = <<>> THEN <<>>
  ELSE (IF toks[1].special THEN <<>> ELSE <<toks[1].text>>) \o NonSpecialTexts(Tail(toks))

\* C7: at every point of a streamed completion, and when it has ended, what
\* generate_stream has yielded is exactly the texts of the non-special tokens
\* that have arrived, in arrival order.
C7_StreamIsFilter ==
  req.kind = "stream" =>
    /\ req.yielded = NonSpecialTexts(req.arrived)
    /\ Len(req.yielded) = Cardinality({i \in 1..Len(req.arrived) : ~req.arrived[i].special})

C7_Witness ==
  /\ req.kind = "stream" /\ req.st = "finished" /\ Len(req.arrived) = 3
  /\ ~req.arrived[1].special /\ req.arrived[2].special /\ ~req.arrived[3].special
  /\ req.arrived[1].text # req.arrived[3].text
  /\ req.yielded = <<req.arrived[1].text, req.arrived[3].text>>

\* C8: every invocation issues exactly one client call; when that call
\* raises, the invocation ends raising the same error, with no second call
\* and no returned result.
C8_ErrorPropagatesNoRetry ==
  /\ forwarded = invocations
  /\ req.st # "idle" => req.ncalls = 1
  /\ req.clientErr # "none" =>
       req.st = "failed" /\ req.raised = req.clientErr /\ req.result = <<>>
  /\ req.raised # "none" => req.raised = req.clientErr /\ req.raised \in Errors

C8_Witness ==
  req.kind = "generate" /\ req.st = "failed" /\ req.raised = "NetworkError" /\ forwarded = 1

\* occurrences of the sequence sub in s, as str.count counts them when they
\* do not overlap (the strings used below have no overlapping occurrences)
CountOcc(sub, s) ==
  Cardinality({i \in 1..(Len(s) - Len(sub) + 1) : SubSeq(s, i, i + Len(sub) - 1) = sub})

\* fields of the template with the given name
FieldCount(name) ==
  Cardinality({i \in 2..Len(PROMPT_TEMPLATE) :
                 PROMPT_TEMPLATE[i - 1] = "{" /\ PROMPT_TEMPLATE[i] = name})

\* the inputs most favourable to a count of occurrences: both non-empty,
\* with no symbol in common
SeparateInputs ==
  /\ pq # <<>> /\ pm # <<>>
  /\ {pq[i] : i \in 1..Len(pq)} \cap {pm[i] : i \in 1..Len(pm)} = {}

\* C9 as stated: the output contains the question exactly once and the
\* metadata exactly once.
C9_EachExactlyOnce ==
  pcalls >= 1 /\ SeparateInputs => CountOcc(pq, pout) = 1 /\ CountOcc(pm, pout) = 1

\* the template's literal text around its three fields
ExpectedPrompt(q, m) ==
  SubSeq(PROMPT_TEMPLATE, 1, 2) \o q \o SubSeq(PROMPT_TEMPLATE, 6, 7) \o m
    \o SubSeq(PROMPT_TEMPLATE, 11, 16) \o q \o SubSeq(PROMPT_TEMPLATE, 20, 25)

\* C9 amended: the output is the template with the question put verbatim at
\* each of its two user_question fields and the metadata at its one
\* table_metadata_string field, all other text unchanged; the same inputs
\* give the same output again.
C9_TemplateSubstituted ==
  /\ FieldCount("user_question") = 2 /\ FieldCount("table_metadata_string") = 1
  /\ pcalls >= 1 =>
       /\ pout = ExpectedPrompt(pq, pm)
       /\ Len(pout) = Len(PROMPT_TEMPLATE) - 9 + 2 * Len(pq) + Len(pm)
       /\ SeparateInputs => CountOcc(pq, pout) >= 2 /\ CountOcc(pm, pout) >= 1
  /\ pcalls >= 2 => pprev = pout

C9_Witness == pcalls = 2 /\ pq = <<"a", "{">> /\ pm = <<"b">> /\ CountOcc(pq, pout) = 2

\* the edges of the Supervisor's state machine
Edges ==
  { <<"Uninitialized", "Launching">>, <<"Launching", "Ready">>,
    <<"Ready", "Terminated">>, <<"Launching", "Failed">> }

\* C10: the Supervisor state changes only along Uninitialized -> Launching ->
\* Ready -> Terminated and Launching -> Failed; Failed is entered on an
\* observed exit of the subprocess before any successful connect; the
\* subprocess is spawned once, on Uninitialized -> Launching.
C10_StateMachine ==
  /\ [](spawns = (IF SupState = "Uninitialized" THEN 0 ELSE 1))
  /\ [][SupState' # SupState => <<SupState, SupState'>> \in Edges]_vars
  /\ [][SupState' = "Failed" /\ SupState # "Failed" =>
          proc = "exited" /\ okConnects = 0 /\ error' = <<"RuntimeError", exitCode[1]>>]_vars
  /\ [][spawns' # spawns => SupState = "Uninitialized" /\ SupState' = "Launching"]_vars

C10_Witness == pc = "stopped" /\ spawns = 1 /\ attempts >= 2 /\ exitCalls = 1
====
